---- MODULE Spec2Model ----
(***************************************************************************)
(* Model of baseApp.py: a Controller (tk.Tk) that builds one frame per     *)
(* entry of its page list, stacks them in one grid cell and raises one of  *)
(* them with show_frame; a NavBar per page; and a SubTable.                *)
(*                                                                         *)
(* The toolkit is modelled by what it does to the widgets this code uses:  *)
(*   - a newly created widget is the highest of its siblings, and tkraise  *)
(*     moves a widget to the top of the stacking order;                    *)
(*   - Text.insert changes nothing while the widget's state is "disabled"; *)
(*   - Button.invoke does nothing while the button is "disabled";          *)
(*   - TableModel.setup(df) makes df the model's frame, Table.updateModel   *)
(*     makes the table use the given model, Table.show redraws it;         *)
(*   - an exception raised inside an event callback ends that callback     *)
(*     only, an exception raised inside the constructor ends construction. *)
(***************************************************************************)
EXTENDS Integers, Sequences, FiniteSets, TLC

VARIABLES
    pc,         \* position of Controller.__init__, then "running"
    pages,      \* Controller.pages: the list of page classes given by the caller
    attrs,      \* names of the attributes already assigned on the Controller
    settings,   \* Controller.settings
    frames,     \* Controller.frames: page class -> frame instance
    data,       \* Controller.data
    queue,      \* Controller.queue
    instances,  \* every page frame created so far, in creation order
    stack,      \* stacking order of the container's children, bottom to top
    subtable,   \* the SubTable instance
    entered,    \* frames whose on_enter ran during the latest call, in order
    fault,      \* exception that ended the latest call, or "none"
    lastOp,     \* the latest call: what was called, on which frame, with what
    pre         \* what the latest call found on entry (buttons, table model)

vars == <<pc, pages, attrs, settings, frames, data, queue, instances, stack,
          subtable, entered, fault, lastOp, pre>>

----------------------------------------------------------------------------
(* Bounds and input sets *)

MaxPages == 2

PageTypes == {"PageTemplate", "Home"}
Versions == {"0.0"}
Titles == {"T1"}
DescTexts == {"D1"}
Messages == {"M1"}
Columns == {"a", "b"}
MaxCell == 2

QueueMaxSize == 10

PageLists == UNION {[1..n -> PageTypes] : n \in 0..MaxPages}

----------------------------------------------------------------------------
(* Tabular values: a mapping from column name to the column's cells *)

BlankDF == [c \in {} |-> <<>>]
DataFrames == {[c \in cols |-> <<v>>] : cols \in (SUBSET Columns) \ {{}}, v \in 1..MaxCell}

----------------------------------------------------------------------------
(* NavBar *)

\* NavBar.__init__
NavBar ==
    [ buttons   |-> [n \in {"Home"} |-> "normal"],
      title     |-> "Default",
      desc      |-> <<>>,
      descState |-> "normal",
      message   |-> "Messages will be displayed here" ]

\* tk.Text.insert(1.0, text)
TextInsert(content, state, text) ==
    IF state = "disabled" THEN content ELSE <<text>> \o content

\* update_desc as it would be if it re-enabled the field before inserting
update_desc_reenable(nb, text) ==
    [nb EXCEPT !.desc = TextInsert(nb.desc, "normal", text),
               !.descState = "disabled"]

update_desc(nb, text) ==
    [nb EXCEPT !.desc = TextInsert(nb.desc, nb.descState, text),
               !.descState = "disabled"]

lock_navbar(nb) ==
    [nb EXCEPT !.buttons = [n \in DOMAIN nb.buttons |-> "disabled"]]

\* unlock_navbar as it would be if it left the buttons alone
unlock_navbar_skip(nb) == nb

unlock_navbar(nb) ==
    [nb EXCEPT !.buttons = [n \in DOMAIN nb.buttons |-> "normal"]]

\* update_title as it would be if a repeated value reset the label
update_title_toggle(nb, title) ==
    [nb EXCEPT !.title = IF nb.title = title THEN "Default" ELSE title]

update_title(nb, title) ==
    [nb EXCEPT !.title = title]

update_message(nb, m) ==
    [nb EXCEPT !.message = m]

----------------------------------------------------------------------------
(* Pages *)

\* PageTemplate.__init__
PageTemplate ==
    [ cls |-> "PageTemplate", name |-> "template", navbar |-> NavBar, labels |-> {} ]

\* Home.__init__
Home ==
    [ cls    |-> "Home",
      name   |-> "Home",
      navbar |-> update_desc(update_title(PageTemplate.navbar, "Home"), "Hello, world"),
      labels |-> {<<"pageLabel", "This is the Page Frame">>} ]

\* F(container, self) for a page class F
NewPage(F) == IF F = "Home" THEN Home ELSE PageTemplate

----------------------------------------------------------------------------
(* Toolkit stacking order *)

RECURSIVE Without(_, _)
Without(s, w) ==
    IF s = <<>> THEN <<>>
    ELSE IF Head(s) = w THEN Without(Tail(s), w)
    ELSE <<Head(s)>> \o Without(Tail(s), w)

\* tkraise as it would be if it lowered the widget instead
tkraise_lower(s, w) == <<w>> \o Without(s, w)

tkraise(s, w) == Append(Without(s, w), w)

Top == stack[Len(stack)]

----------------------------------------------------------------------------
(* SubTable *)

\* SubTable.__init__: a fresh TableModel, and a Table that owns a model of its own
SubTable ==
    [ tablemodel |-> BlankDF, tableModel |-> "own", drawn |-> FALSE, grid |-> BlankDF ]

\* The data frame of the model the Table widget currently uses
TableDF(st) == IF st.tableModel = "tablemodel" THEN st.tablemodel ELSE BlankDF

\* edit_table as it would be if the new frame were merged into the old one
edit_table_merge(st, df) ==
    LET old == st.tablemodel
        merged == [c \in DOMAIN old \cup DOMAIN df |->
                      IF c \in DOMAIN old THEN old[c] ELSE df[c]]
    IN [st EXCEPT !.tablemodel = merged, !.tableModel = "tablemodel",
                  !.drawn = TRUE, !.grid = merged]

\* SubTable.edit_table(df): TableModel.setup(df); Table.updateModel(model); Table.show()
edit_table(st, df) ==
    LET s1 == [st EXCEPT !.tablemodel = df]
        s2 == [s1 EXCEPT !.tableModel = "tablemodel"]
    IN [s2 EXCEPT !.drawn = TRUE, !.grid = TableDF(s2)]

----------------------------------------------------------------------------
(* Controller *)

NoButtons == [n \in {} |-> "normal"]

Op(op, target, arg) == [op |-> op, target |-> target, arg |-> arg]

Init ==
    /\ pc = "loop"
    /\ pages \in PageLists
    /\ attrs = {"settings", "frames", "pages"}
    /\ settings \in {[ version   |-> v,
                       smallfont |-> <<"Verdana", 12>>,
                       medfont   |-> <<"Verdana", 20>>,
                       largefont |-> <<"Verdana", 30>> ] : v \in Versions}
    /\ frames = [F \in {} |-> 0]
    /\ data = {}
    /\ queue = [maxsize |-> 0, items |-> <<>>]
    /\ instances = <<>>
    /\ stack = <<>>
    /\ subtable = SubTable
    /\ entered = <<>>
    /\ fault = "none"
    /\ lastOp = Op("__init__", 0, "")
    /\ pre = [buttons |-> NoButtons, df |-> BlankDF]

\* PageTemplate.on_enter of frame f: prints the page's name
on_enter(f) == <<f>>

\* show_frame as it would be if on_enter ran twice
show_frame_twice(cont) ==
    IF cont \in DOMAIN frames
    THEN /\ stack' = tkraise(stack, frames[cont])
         /\ entered' = on_enter(frames[cont]) \o on_enter(frames[cont])
         /\ fault' = "none"
         /\ frames' = frames
    ELSE /\ stack' = stack
         /\ entered' = <<>>
         /\ fault' = "KeyError"
         /\ frames' = frames

\* show_frame as it would be if an unknown class fell back to the first page
show_frame_fallback(cont) ==
    LET f == IF cont \in DOMAIN frames THEN frames[cont] ELSE frames[pages[1]]
    IN /\ stack' = tkraise(stack, f)
       /\ entered' = on_enter(f)
       /\ fault' = "none"
       /\ frames' = frames

\* show_frame as it would be if an unknown class were registered on the fly
show_frame_setdefault(cont) ==
    LET reg == [G \in DOMAIN frames \cup {cont} |->
                   IF G \in DOMAIN frames THEN frames[G] ELSE Top]
    IN /\ stack' = tkraise(stack, reg[cont])
       /\ entered' = on_enter(reg[cont])
       /\ fault' = "none"
       /\ frames' = reg

\* Controller.show_frame(cont)
show_frame(cont) ==
    IF cont \in DOMAIN frames
    THEN /\ stack' = tkraise(stack, frames[cont])
         /\ entered' = on_enter(frames[cont])
         /\ fault' = "none"
         /\ frames' = frames
    ELSE /\ stack' = stack
         /\ entered' = <<>>
         /\ fault' = "KeyError"
         /\ frames' = frames

\* One iteration of the loop of Controller.__init__
CreateFrame ==
    /\ pc = "loop"
    /\ Len(instances) < Len(pages)
    /\ LET F == pages[Len(instances) + 1]
           f == Len(instances) + 1
       IN /\ instances' = Append(instances, NewPage(F))
          /\ frames' = [G \in DOMAIN frames \cup {F} |-> IF G = F THEN f ELSE frames[G]]
          /\ stack' = Append(stack, f)
    /\ entered' = <<>>
    /\ fault' = "none"
    /\ lastOp' = Op("__init__", 0, "")
    /\ UNCHANGED <<pc, pages, attrs, settings, data, queue, subtable, pre>>

\* self.show_frame(self.pages[0]) in Controller.__init__
ShowFirst ==
    /\ pc = "loop"
    /\ Len(instances) = Len(pages)
    /\ IF pages = <<>>
       THEN /\ pc' = "crashed"
            /\ fault' = "IndexError"
            /\ UNCHANGED <<stack, entered, frames>>
       ELSE /\ pc' = "data"
            /\ show_frame(pages[1])
    /\ lastOp' = Op("__init__", 0, "")
    /\ UNCHANGED <<pages, attrs, settings, data, queue, instances, subtable, pre>>

\* self.data = ...; self.queue = ... in Controller.__init__
InitData ==
    /\ pc = "data"
    /\ pc' = "running"
    /\ data' = {<<"df", {}>>, <<"inputs", {}>>, <<"conn", {}>>}
    /\ queue' = [maxsize |-> QueueMaxSize, items |-> <<>>]
    /\ attrs' = attrs \cup {"data", "queue"}
    /\ entered' = <<>>
    /\ fault' = "none"
    /\ lastOp' = Op("__init__", 0, "")
    /\ UNCHANGED <<pages, settings, frames, instances, stack, subtable, pre>>

\* A call of Controller.show_frame by the host application
CallShowFrame(cont) ==
    /\ pc = "running"
    /\ show_frame(cont)
    /\ lastOp' = Op("show_frame", 0, cont)
    /\ pre' = [buttons |-> NoButtons, df |-> subtable.tablemodel]
    /\ UNCHANGED <<pc, pages, attrs, settings, data, queue, instances, subtable>>

\* A click on the Home button of frame f's NavBar: controller.show_frame(Home)
ClickHome(f) ==
    /\ pc = "running"
    /\ instances[f].navbar.buttons["Home"] = "normal"
    /\ show_frame("Home")
    /\ lastOp' = Op("click_home", f, "")
    /\ pre' = [buttons |-> instances[f].navbar.buttons, df |-> subtable.tablemodel]
    /\ UNCHANGED <<pc, pages, attrs, settings, data, queue, instances, subtable>>

\* Frame f's navbar replaced by nb, as the effect of the call op
NavCall(f, nb, op) ==
    /\ pc = "running"
    /\ instances' = [instances EXCEPT ![f].navbar = nb]
    /\ entered' = <<>>
    /\ fault' = "none"
    /\ lastOp' = op
    /\ pre' = [buttons |-> instances[f].navbar.buttons, df |-> subtable.tablemodel]
    /\ UNCHANGED <<pc, pages, attrs, settings, frames, data, queue, stack, subtable>>

\* PageTemplate.lock of frame f
lock(f) == NavCall(f, lock_navbar(instances[f].navbar), Op("lock", f, ""))

\* PageTemplate.unlock of frame f
unlock(f) == NavCall(f, unlock_navbar(instances[f].navbar), Op("unlock", f, ""))

\* NavBar.update_title(title) on frame f's navbar
CallUpdateTitle(f, title) ==
    NavCall(f, update_title(instances[f].navbar, title), Op("update_title", f, title))

\* NavBar.update_desc(text) on frame f's navbar
CallUpdateDesc(f, text) ==
    NavCall(f, update_desc(instances[f].navbar, text), Op("update_desc", f, text))

\* NavBar.update_message(m) on frame f's navbar
CallUpdateMessage(f, m) ==
    NavCall(f, update_message(instances[f].navbar, m), Op("update_message", f, m))

\* SubTable.edit_table(df)
CallEditTable(df) ==
    /\ pc = "running"
    /\ subtable' = edit_table(subtable, df)
    /\ entered' = <<>>
    /\ fault' = "none"
    /\ lastOp' = Op("edit_table", 0, df)
    /\ pre' = [buttons |-> NoButtons, df |-> subtable.tablemodel]
    /\ UNCHANGED <<pc, pages, attrs, settings, frames, data, queue, instances, stack>>

Next ==
    \/ CreateFrame
    \/ ShowFirst
    \/ InitData
    \/ \E cont \in PageTypes : CallShowFrame(cont)
    \/ \E f \in 1..Len(instances) : ClickHome(f)
    \/ \E f \in 1..Len(instances) : lock(f)
    \/ \E f \in 1..Len(instances) : unlock(f)
    \/ \E f \in 1..Len(instances), title \in Titles : CallUpdateTitle(f, title)
    \/ \E f \in 1..Len(instances), text \in DescTexts : CallUpdateDesc(f, text)
    \/ \E f \in 1..Len(instances), m \in Messages : CallUpdateMessage(f, m)

\* The Controller, its pages and their navbars
Spec == Init /\ [][Next]_vars

NextTable ==
    \/ CreateFrame
    \/ ShowFirst
    \/ InitData
    \/ \E df \in DataFrames : CallEditTable(df)

\* A SubTable of a constructed application
SpecTable == Init /\ [][NextTable]_vars

----------------------------------------------------------------------------
(* Properties *)

PageSet == {pages[k] : k \in 1..Len(pages)}
InstancesOf(F) == {f \in 1..Len(instances) : instances[f].cls = F}
Occurrences(F) == Cardinality({k \in 1..Len(pages) : pages[k] = F})
NavOf(f) == instances[f].navbar
AllNormal(b) == \A n \in DOMAIN b : b[n] = "normal"

\* C1 as stated: for every list of page types, once construction has finished
\* exactly one frame instance exists per page type (one created, one
\* registered) and, until the first call after it, the frame of the first
\* type in the list is top-most.
C1_OneInstancePerType ==
    pc = "running" =>
        /\ \A F \in PageSet :
              /\ Cardinality(InstancesOf(F)) = 1
              /\ F \in DOMAIN frames
              /\ frames[F] \in InstancesOf(F)
        /\ lastOp.op = "__init__" => Top = frames[pages[1]]

\* C1 amended: once construction has finished, frames registers exactly one
\* instance per page type of the list, one instance has been created per list
\* entry (so exactly one for a type listed once; for a type listed several
\* times the last one created is the one registered), and, until the first
\* call after it, the registered frame of the first type is top-most.
C1_OneRegisteredPerType ==
    pc = "running" =>
        /\ DOMAIN frames = PageSet
        /\ Len(instances) = Len(pages)
        /\ \A k \in 1..Len(pages) : instances[k].cls = pages[k]
        /\ \A F \in PageSet :
              /\ Cardinality(InstancesOf(F)) = Occurrences(F)
              /\ frames[F] \in InstancesOf(F)
              /\ \A f \in InstancesOf(F) : f <= frames[F]
        /\ lastOp.op = "__init__" => Top = frames[pages[1]]

C1_Witness ==
    /\ pc = "running"
    /\ lastOp.op = "__init__"
    /\ Len(pages) = 2
    /\ pages[1] # pages[2]
    /\ Cardinality(InstancesOf(pages[1])) = 1
    /\ Top = frames[pages[1]]
    /\ Top # Len(instances)

\* C2: every show_frame(P) with P registered runs the on_enter of P's frame
\* exactly once, no other on_enter, and leaves P's frame top-most; this holds
\* for the call made by the constructor too.
C2_ShowFrameEntersOnce ==
    /\ (lastOp.op = "show_frame" /\ lastOp.arg \in DOMAIN frames) =>
           /\ entered = <<frames[lastOp.arg]>>
           /\ Top = frames[lastOp.arg]
           /\ fault = "none"
    /\ pc = "data" =>
           /\ entered = <<frames[pages[1]]>>
           /\ Top = frames[pages[1]]

C2_Witness ==
    /\ lastOp.op = "show_frame"
    /\ lastOp.arg \in DOMAIN frames
    /\ Cardinality(DOMAIN frames) = 2
    /\ lastOp.arg # pages[1]
    /\ Top = frames[lastOp.arg]

LockThenUnlock ==
    /\ lastOp.op = "lock"
    /\ lastOp'.op = "unlock"
    /\ lastOp'.target = lastOp.target

\* C3 as stated: lock followed by unlock leaves each button in exactly the
\* state it had before the lock (pre holds the buttons the lock call found).
C3_LockUnlockRestores ==
    [][LockThenUnlock => NavOf(lastOp.target)'.buttons = pre.buttons]_vars

\* C3 amended: lock followed by unlock leaves every registered button
\* "normal"; that is the state each button had before the lock exactly when
\* every button was "normal" then.
C3_LockUnlockNormal ==
    [][LockThenUnlock =>
          /\ AllNormal(NavOf(lastOp.target)'.buttons)
          /\ DOMAIN NavOf(lastOp.target)'.buttons = DOMAIN pre.buttons
          /\ (NavOf(lastOp.target)'.buttons = pre.buttons) <=> AllNormal(pre.buttons)]_vars

C3_Witness ==
    /\ lastOp.op = "unlock"
    /\ pre.buttons = [n \in {"Home"} |-> "disabled"]
    /\ AllNormal(NavOf(lastOp.target).buttons)

\* C4: after edit_table(d2), also when it follows edit_table(d1), the table
\* model and the drawn grid hold exactly d2.
C4_EditTableReplaces ==
    lastOp.op = "edit_table" =>
        /\ subtable.tablemodel = lastOp.arg
        /\ subtable.tableModel = "tablemodel"
        /\ subtable.drawn
        /\ subtable.grid = lastOp.arg

C4_Witness ==
    /\ lastOp.op = "edit_table"
    /\ pre.df \in DataFrames
    /\ DOMAIN pre.df = {"a"}
    /\ DOMAIN lastOp.arg = {"b"}
    /\ subtable.grid = lastOp.arg

\* C5: after update_title(text) the title is text, and a further call with
\* the same text changes nothing.
C5_UpdateTitleIdempotent ==
    /\ [](lastOp.op = "update_title" => NavOf(lastOp.target).title = lastOp.arg)
    /\ [][(lastOp.op = "update_title" /\ lastOp' = lastOp) => instances' = instances]_vars

C5_Witness ==
    /\ lastOp.op = "update_title"
    /\ instances[lastOp.target].cls = "Home"
    /\ NavOf(lastOp.target).title = "T1"

\* C6: update_desc on an enabled field inserts the text and disables the
\* field; a disabled field stays disabled with the same content whatever call
\* comes next, and update_desc on it inserts nothing.
C6_DescDisabledForGood ==
    /\ [](lastOp.op = "update_desc" => NavOf(lastOp.target).descState = "disabled")
    /\ [][(lastOp'.op = "update_desc" /\ instances[lastOp'.target].navbar.descState = "normal") =>
             instances'[lastOp'.target].navbar.desc =
                 <<lastOp'.arg>> \o instances[lastOp'.target].navbar.desc]_vars
    /\ [][\A f \in 1..Len(instances) :
             NavOf(f).descState = "disabled" =>
                 /\ NavOf(f)'.descState = "disabled"
                 /\ NavOf(f)'.desc = NavOf(f).desc]_vars

\* A later update_desc("D1") on a Home page, whose constructor made the first
\* call: nothing was inserted.
C6_Witness ==
    /\ lastOp.op = "update_desc"
    /\ lastOp.arg = "D1"
    /\ instances[lastOp.target].cls = "Home"
    /\ NavOf(lastOp.target).desc = <<"Hello, world">>
    /\ NavOf(lastOp.target).descState = "disabled"
    /\ \E f \in 1..Len(instances) :
          instances[f].cls = "PageTemplate" /\ NavOf(f).desc = <<"D1">>

\* C7 as stated: a click on an enabled Home button makes the Home frame
\* top-most and runs its on_enter, whatever the page list.
C7_HomeButtonShowsHome ==
    lastOp.op = "click_home" =>
        /\ "Home" \in DOMAIN frames
        /\ Top = frames["Home"]
        /\ entered = <<frames["Home"]>>

\* C8: show_frame(P) with P not registered ends in the lookup's KeyError with
\* nothing raised, no on_enter run, and frames and the stacking order as they
\* were.
C8_UnregisteredFaults ==
    /\ []((lastOp.op = "show_frame" /\ lastOp.arg \notin DOMAIN frames) =>
             fault = "KeyError" /\ entered = <<>>)
    /\ [][(lastOp'.op = "show_frame" /\ lastOp'.arg \notin DOMAIN frames) =>
             /\ fault' = "KeyError"
             /\ entered' = <<>>
             /\ stack' = stack
             /\ frames' = frames
             /\ instances' = instances]_vars

C8_Witness ==
    /\ pc = "running"
    /\ lastOp.op = "show_frame"
    /\ lastOp.arg \notin DOMAIN frames
    /\ fault = "KeyError"
    /\ Len(stack) = 2

\* C9: once the Controller is constructed no call changes frames, settings,
\* data or the queue, and the queue stays empty.
C9_RegistryFrozen ==
    /\ [](pc = "running" => queue.items = <<>> /\ queue.maxsize = QueueMaxSize)
    /\ [][pc = "running" =>
             /\ frames' = frames
             /\ settings' = settings
             /\ data' = data
             /\ queue' = queue
             /\ pages' = pages
             /\ Len(instances') = Len(instances)]_vars

C9_Witness ==
    /\ pc = "running"
    /\ lastOp.op = "unlock"
    /\ Cardinality(DOMAIN frames) = 2
    /\ Top # frames[pages[1]]
    /\ \E f \in 1..Len(instances) : NavOf(f).title = "T1"
    /\ queue.items = <<>>

\* C10 as stated: whenever on_enter has just run, every page of the list is
\* instantiated and registered and data and queue are already assigned.
C10_EnterAfterInit ==
    entered # <<>> =>
        /\ Len(instances) = Len(pages)
        /\ PageSet \subseteq DOMAIN frames
        /\ {"data", "queue"} \subseteq attrs

====
